---- MODULE Spec2Model ----
(***************************************************************************)
(* Model of multi_pdf_agent/multi_pdf_agent_app.py: a Streamlit script     *)
(* that loads the PDFs of a folder, filters them by filename, builds a     *)
(* cached ConversationalRetrievalChain over the filtered pages and keeps   *)
(* a per-session chat history.                                             *)
(*                                                                         *)
(* A Streamlit session owns one script thread.  Every widget event asks    *)
(* for a rerun of the whole script with the widgets' new values; a run in  *)
(* progress is stopped at its next st.* call (a yield point) and started   *)
(* again.  st.cache_resource caches are process-wide: every session sees   *)
(* the same cached objects.  Strings the code inspects character by        *)
(* character (file names, the filter text, page texts) are sequences of    *)
(* one-character strings.                                                  *)
(***************************************************************************)
EXTENDS Integers, Sequences, FiniteSets, TLC

VARIABLES
    folder,        \* the files of PDF_FOLDER, in os.listdir order
    load_cache,    \* st.cache_resource of load_pdfs_from_folder
    chain_cache,   \* st.cache_resource of create_qa_chain: key -> chain
    w,             \* per session: the widget values the running script sees
    req,           \* per session: the pending rerun request, if any
    pc,            \* per session: the position of the script thread
    qa_chain,      \* per session: the script's local variable qa_chain
    session_keys,  \* per session: the keys present in st.session_state
    chat_history,  \* per session: st.session_state.chat_history
    inflight,      \* the chain calls that have started and not returned
    notice,        \* per session: what the last run reported besides the page
    prev_notice,   \* per session: notice of the run before
    trigger,       \* per session: what started the current run
    unanswered,    \* per session: the questions submitted and not answered since
    shown,         \* per session: the widgets the browser shows
    events         \* number of widget events so far

vars == <<folder, load_cache, chain_cache, w, req, pc, qa_chain, session_keys,
          chat_history, inflight, notice, prev_notice, trigger, unanswered,
          shown, events>>

----------------------------------------------------------------------------
(* Bounds of the model *)

MaxEvents == 3

Sessions == {"s1", "s2"}
Questions == {"q1", "q2"}

----------------------------------------------------------------------------
(* Strings *)

Lower(c) ==
    CASE c = "A" -> "a"
      [] c = "B" -> "b"
      [] c = "C" -> "c"
      [] OTHER -> c

LowerStr(s) == [i \in 1..Len(s) |-> Lower(s[i])]

\* x in y, for Python strings
Contains(y, x) ==
    \E i \in 0..(Len(y) - Len(x)) : Len(x) = 0 \/ SubSeq(y, i + 1, i + Len(x)) = x

EndsWith(s, suffix) ==
    /\ Len(s) >= Len(suffix)
    /\ SubSeq(s, Len(s) - Len(suffix) + 1, Len(s)) = suffix

DotPdf == <<".", "p", "d", "f">>

----------------------------------------------------------------------------
(* The folder *)

File(name, readable, pages) == [name |-> name, readable |-> readable, pages |-> pages]

APdf == <<"a">> \o DotPdf
BPdf == <<"B">> \o DotPdf
CPdf == <<"c">> \o DotPdf
NTxt == <<"n", ".", "t", "x", "t">>

\* a.pdf has a long page and a page without text, B.pdf one short page
DefaultFolder ==
    << File(APdf, TRUE, << <<"x", "x", "x", "x", "x">>, <<>> >>),
       File(NTxt, TRUE, << <<"x">> >>),
       File(BPdf, TRUE, << <<"y">> >>) >>

\* one unreadable file among readable ones
BrokenFolder ==
    << File(APdf, TRUE, << <<"x">> >>),
       File(CPdf, FALSE, <<>>),
       File(BPdf, TRUE, << <<"y">> >>) >>

Folders == {DefaultFolder, BrokenFolder}

----------------------------------------------------------------------------
(* load_pdfs_from_folder *)

Document(text, filename, page) ==
    [page_content |-> text, source |-> filename, page |-> page]

RECURSIVE PageDocs(_, _, _)
PageDocs(filename, pages, page_num) ==
    IF page_num >= Len(pages) THEN <<>>
    ELSE LET text == pages[page_num + 1]
         IN  (IF text # <<>> THEN <<Document(text, filename, page_num + 1)>> ELSE <<>>)
                 \o PageDocs(filename, pages, page_num + 1)

RECURSIVE LoadFrom(_, _, _)
LoadFrom(files, i, all_docs) ==
    IF i > Len(files) THEN [raised |-> FALSE, docs |-> all_docs]
    ELSE IF ~EndsWith(files[i].name, DotPdf) THEN LoadFrom(files, i + 1, all_docs)
    ELSE IF ~files[i].readable THEN [raised |-> TRUE, docs |-> <<>>]
    ELSE LoadFrom(files, i + 1, all_docs \o PageDocs(files[i].name, files[i].pages, 0))

load_pdfs_from_folder(files) == LoadFrom(files, 1, <<>>)

----------------------------------------------------------------------------
(* The filename filter *)

SearchInputs == {<<>>, <<"b">>, <<"z">>}

filenames(docs) == {docs[i].source : i \in 1..Len(docs)}

filtered_files(docs, search_query) ==
    {f \in filenames(docs) : Contains(LowerStr(f), LowerStr(search_query))}

filtered_docs(docs, search_query) ==
    LET Kept(doc) == doc.source \in filtered_files(docs, search_query)
    IN  SelectSeq(docs, Kept)

----------------------------------------------------------------------------
(* create_qa_chain and the chain it returns *)

None == "None"

\* st.cache_resource leaves a parameter whose name starts with an underscore
\* out of the cache key: every call of create_qa_chain has the same key
CacheKey(docs_) == "create_qa_chain"

\* FAISS.from_documents(_docs, embeddings) with a fresh ConversationBufferMemory
create_qa_chain(docs_) ==
    [key |-> CacheKey(docs_), segments |-> docs_, memory |-> <<>>]

Cached(key) == \E c \in chain_cache : c.key = key
Chain(key) == CHOOSE c \in chain_cache : c.key = key

\* as_retriever() returns the 4 nearest documents unless told otherwise
TopK == 4

\* the maximum segment length of the chunking parameters; the script sets
\* none and never calls the CharacterTextSplitter it imports
maxLength == 3

Min(a, b) == IF a < b THEN a ELSE b

\* vectorstore.as_retriever(): the source documents come from the chain's index
Retrieve(chain) == SubSeq(chain.segments, 1, Min(TopK, Len(chain.segments)))

\* the answer of the generation capability, which sees the question and the
\* conversation so far
Answer(question, history) == [to |-> question, turn |-> Len(history) + 1]

Turn(question, answer) == [question |-> question, answer |-> answer]

Exchange(question, answer, sources) ==
    [question |-> question, answer |-> answer, sources |-> sources]

\* chat_history as the chain's memory would hold it
Turns(history) == [i \in 1..Len(history) |-> Turn(history[i].question, history[i].answer)]

----------------------------------------------------------------------------
(* Initial state: every session is connected and its first run is about to start *)

Widgets(search_query, query, clicked) ==
    [search_query |-> search_query, query |-> query, clicked |-> clicked]

Init ==
    /\ folder \in Folders
    /\ load_cache = [loaded |-> FALSE, docs |-> <<>>]
    /\ chain_cache = {}
    /\ w = [s \in Sessions |-> Widgets(<<>>, "", FALSE)]
    /\ req = [s \in Sessions |-> {}]
    /\ pc = [s \in Sessions |-> "top"]
    /\ qa_chain = [s \in Sessions |-> None]
    /\ session_keys = [s \in Sessions |-> {}]
    /\ chat_history = [s \in Sessions |-> <<>>]
    /\ inflight = {}
    /\ notice = [s \in Sessions |-> ""]
    /\ prev_notice = [s \in Sessions |-> ""]
    /\ trigger = [s \in Sessions |-> "connect"]
    /\ unanswered = [s \in Sessions |-> {}]
    /\ shown = [s \in Sessions |-> {}]
    /\ events = 0

----------------------------------------------------------------------------
(* Widget events: the browser asks for a rerun with the widgets' new values. *)
(* A widget is on the page once a run has rendered it; when a run ends, the   *)
(* widgets it did not render are removed.                                     *)

\* the widget values a new event starts from: those of the pending request if
\* there is one, else those of the running script with its button trigger reset
Base(s) ==
    IF req[s] # {} THEN CHOOSE r \in req[s] : TRUE
    ELSE [w[s] EXCEPT !.clicked = FALSE]

\* a run of the script with the given widget values starts
Begin(s, widgets, by) ==
    /\ w' = [w EXCEPT ![s] = widgets]
    /\ pc' = [pc EXCEPT ![s] = "top"]
    /\ prev_notice' = [prev_notice EXCEPT ![s] = notice[s]]
    /\ notice' = [notice EXCEPT ![s] = ""]
    /\ trigger' = [trigger EXCEPT ![s] = by]

\* with no script running the run starts at once; else the request waits,
\* replacing the one that waited before
Request(s, widgets) ==
    /\ events < MaxEvents
    /\ events' = events + 1
    /\ IF pc[s] = "idle" /\ req[s] = {}
       THEN /\ Begin(s, widgets, "widget")
            /\ UNCHANGED req
       ELSE /\ req' = [req EXCEPT ![s] = {widgets}]
            /\ UNCHANGED <<w, pc, notice, prev_notice, trigger>>
    /\ UNCHANGED <<folder, load_cache, chain_cache, qa_chain, session_keys,
                   chat_history, inflight, shown>>

\* st.text_input("Filter PDFs by filename:")
EditFilter(s, f) ==
    /\ "filter" \in shown[s]
    /\ f # Base(s).search_query
    /\ Request(s, [Base(s) EXCEPT !.search_query = f])
    /\ UNCHANGED unanswered

\* st.text_input("Ask a question about your documents:")
SubmitQuestion(s, q) ==
    /\ "question" \in shown[s]
    /\ q # Base(s).query
    /\ Request(s, [Base(s) EXCEPT !.query = q])
    /\ unanswered' = [unanswered EXCEPT ![s] = @ \cup {q}]

\* st.button("Clear Conversation")
ClickClear(s) ==
    /\ "clear" \in shown[s]
    /\ Request(s, [Base(s) EXCEPT !.clicked = TRUE])
    /\ UNCHANGED unanswered

\* st.download_button of one of the listed files: a rerun with the same values
ClickDownload(s) ==
    /\ "filter" \in shown[s]
    /\ load_cache.loaded
    /\ Request(s, Base(s))
    /\ filtered_files(load_cache.docs, w[s].search_query) # {}
    /\ UNCHANGED unanswered

----------------------------------------------------------------------------
(* The script runner *)

\* yield points of a script whose chain call reports to the page as it runs
YieldPointsInCall == {"top", "ask", "calling", "tail"}

\* the positions at which the script calls st.* and a pending rerun stops it;
\* the chain call at "calling" makes no st.* call
YieldPoints == {"top", "ask", "tail"}

\* a pending request starts a run: at the next yield point of the running
\* script, or when that script has ended
StartRun(s) ==
    /\ req[s] # {}
    /\ pc[s] \in YieldPoints \cup {"idle"}
    /\ Begin(s, CHOOSE r \in req[s] : TRUE, "widget")
    /\ req' = [req EXCEPT ![s] = {}]
    /\ UNCHANGED <<folder, load_cache, chain_cache, qa_chain, session_keys,
                   chat_history, inflight, unanswered, events, shown>>

\* an uncaught exception ends the run; Streamlit shows it on the page
Raise(s, what) ==
    /\ pc' = [pc EXCEPT ![s] = "idle"]
    /\ notice' = [notice EXCEPT ![s] = what]

----------------------------------------------------------------------------
(* Lines 59-96: load, filter, chain, chat_history *)

Loaded ==
    IF load_cache.loaded THEN [raised |-> FALSE, docs |-> load_cache.docs]
    ELSE load_pdfs_from_folder(folder)

AtTop(s) == pc[s] = "top" /\ req[s] = {}

\* docs = load_pdfs_from_folder(PDF_FOLDER) raises
TopLoadError(s) ==
    /\ AtTop(s)
    /\ Loaded.raised
    /\ Raise(s, "load_error")
    /\ shown' = [shown EXCEPT ![s] = {}]
    /\ UNCHANGED <<folder, load_cache, chain_cache, w, req, qa_chain, session_keys,
                   chat_history, inflight, prev_notice, trigger, unanswered,
                   events>>

\* what lines 59-96 do once qa_chain is known
TopDone(s, chain_key) ==
    /\ load_cache' = [loaded |-> TRUE, docs |-> Loaded.docs]
    /\ qa_chain' = [qa_chain EXCEPT ![s] = chain_key]
    /\ session_keys' = [session_keys EXCEPT ![s] = @ \cup {"chat_history"}]
    /\ chat_history' = [chat_history EXCEPT ![s] =
                            IF "chat_history" \in session_keys[s] THEN @ ELSE <<>>]
    /\ pc' = [pc EXCEPT ![s] = "ask"]
    /\ shown' = [shown EXCEPT ![s] = @ \cup {"filter", "question"}]
    /\ UNCHANGED <<folder, w, req, inflight, notice, prev_notice, trigger,
                   unanswered, events>>

\* filtered_docs is empty: qa_chain = None
TopNoDocs(s) ==
    /\ AtTop(s)
    /\ ~Loaded.raised
    /\ filtered_docs(Loaded.docs, w[s].search_query) = <<>>
    /\ TopDone(s, None)
    /\ UNCHANGED chain_cache

\* create_qa_chain(filtered_docs) finds its key in the cache
TopCached(s) ==
    /\ AtTop(s)
    /\ ~Loaded.raised
    /\ LET docs_ == filtered_docs(Loaded.docs, w[s].search_query)
       IN  /\ docs_ # <<>>
           /\ Cached(CacheKey(docs_))
           /\ TopDone(s, CacheKey(docs_))
    /\ UNCHANGED chain_cache

\* create_qa_chain(filtered_docs) builds the chain and caches it
TopBuild(s) ==
    /\ AtTop(s)
    /\ ~Loaded.raised
    /\ LET docs_ == filtered_docs(Loaded.docs, w[s].search_query)
       IN  /\ docs_ # <<>>
           /\ ~Cached(CacheKey(docs_))
           /\ chain_cache' = chain_cache \cup {create_qa_chain(docs_)}
           /\ TopDone(s, CacheKey(docs_))

\* the embedding capability fails while the chain is built: nothing is cached
TopBuildError(s) ==
    /\ AtTop(s)
    /\ ~Loaded.raised
    /\ LET docs_ == filtered_docs(Loaded.docs, w[s].search_query)
       IN  /\ docs_ # <<>>
           /\ ~Cached(CacheKey(docs_))
    /\ Raise(s, "build_error")
    /\ load_cache' = [loaded |-> TRUE, docs |-> Loaded.docs]
    /\ shown' = [shown EXCEPT ![s] = {"filter"}]
    /\ UNCHANGED <<folder, chain_cache, w, req, qa_chain, session_keys,
                   chat_history, inflight, prev_notice, trigger, unanswered, events>>

----------------------------------------------------------------------------
(* Lines 96-109: the question box and the ask *)

AtAsk(s) == pc[s] = "ask" /\ req[s] = {}

Asks(s) == w[s].query # "" /\ qa_chain[s] # None

CallsOf(s) == {c \in inflight : c.session = s}

\* "if query and qa_chain" is false
AskSkip(s) ==
    /\ AtAsk(s)
    /\ ~Asks(s)
    /\ pc' = [pc EXCEPT ![s] = "tail"]
    /\ UNCHANGED <<folder, load_cache, chain_cache, w, req, qa_chain, session_keys,
                   chat_history, inflight, notice, prev_notice, trigger, unanswered,
                   events, shown>>

\* qa_chain({"question": query}) starts: the chain reads its memory and hands
\* it, with the question, to retrieval and synthesis
AskCall(s) ==
    /\ AtAsk(s)
    /\ Asks(s)
    /\ inflight' = inflight \cup
           {[session |-> s, question |-> w[s].query, key |-> qa_chain[s],
             chat_history |-> Chain(qa_chain[s]).memory]}
    /\ pc' = [pc EXCEPT ![s] = "calling"]
    /\ UNCHANGED <<folder, load_cache, chain_cache, w, req, qa_chain, session_keys,
                   chat_history, notice, prev_notice, trigger, unanswered,
                   events, shown>>

\* the chain returns: it saves the turn to its memory, and the script appends
\* the exchange to st.session_state.chat_history
AskOk(s) ==
    /\ pc[s] = "calling"
    /\ \E c \in CallsOf(s) :
         LET chain == Chain(c.key)
             answer == Answer(c.question, c.chat_history)
         IN  /\ chain_cache' = (chain_cache \ {chain}) \cup
                     {[chain EXCEPT !.memory = Append(@, Turn(c.question, answer))]}
             /\ chat_history' = [chat_history EXCEPT ![s] =
                     Append(@, Exchange(w[s].query, answer, Retrieve(chain)))]
             /\ inflight' = inflight \ {c}
    /\ pc' = [pc EXCEPT ![s] = "tail"]
    /\ unanswered' = [unanswered EXCEPT ![s] = @ \ {w[s].query}]
    /\ UNCHANGED <<folder, load_cache, w, req, qa_chain, session_keys, notice,
                   prev_notice, trigger, events, shown>>

\* the chain call raises (embedding or generation fails or times out) and the
\* exception ends the run, with the turn saved to the memory all the same
AskFailSavesTurn(s) ==
    /\ pc[s] = "calling"
    /\ \E c \in CallsOf(s) :
         LET chain == Chain(c.key)
         IN  /\ inflight' = inflight \ {c}
             /\ chain_cache' = (chain_cache \ {chain}) \cup
                     {[chain EXCEPT !.memory = Append(@, Turn(c.question, "error"))]}
    /\ Raise(s, "ask_error")
    /\ shown' = [shown EXCEPT ![s] = {"filter", "question"}]
    /\ UNCHANGED <<folder, load_cache, w, req, qa_chain, session_keys,
                   chat_history, prev_notice, trigger, unanswered, events>>

\* the chain call raises (embedding or generation fails or times out): the
\* chain saves nothing and the exception ends the run before the append
AskFail(s) ==
    /\ pc[s] = "calling"
    /\ \E c \in CallsOf(s) : inflight' = inflight \ {c}
    /\ Raise(s, "ask_error")
    /\ shown' = [shown EXCEPT ![s] = {"filter", "question"}]
    /\ UNCHANGED <<folder, load_cache, chain_cache, w, req, qa_chain, session_keys,
                   chat_history, prev_notice, trigger, unanswered, events>>

----------------------------------------------------------------------------
(* Lines 111-131: the page and the Clear Conversation button *)

AtTail(s) == pc[s] = "tail" /\ req[s] = {}

\* st.button returns False: the run ends
TailIdle(s) ==
    /\ AtTail(s)
    /\ ~w[s].clicked
    /\ pc' = [pc EXCEPT ![s] = "idle"]
    /\ shown' = [shown EXCEPT ![s] = {"filter", "question", "clear"}]
    /\ UNCHANGED <<folder, load_cache, chain_cache, w, req, qa_chain, session_keys,
                   chat_history, inflight, notice, prev_notice, trigger, unanswered,
                   events>>

\* st.button returns True: clear, then st.experimental_rerun()
TailClear(s) ==
    /\ AtTail(s)
    /\ w[s].clicked
    /\ chat_history' = [chat_history EXCEPT ![s] = <<>>]
    /\ chain_cache' =
           IF qa_chain[s] # None
           THEN (chain_cache \ {Chain(qa_chain[s])}) \cup
                    {[Chain(qa_chain[s]) EXCEPT !.memory = <<>>]}
           ELSE chain_cache
    /\ Begin(s, [w[s] EXCEPT !.clicked = FALSE], "rerun")
    /\ shown' = [shown EXCEPT ![s] = @ \cup {"clear"}]
    /\ UNCHANGED <<folder, load_cache, req, qa_chain, session_keys, inflight,
                   unanswered, events>>

----------------------------------------------------------------------------

Next ==
    \E s \in Sessions :
        \/ \E f \in SearchInputs : EditFilter(s, f)
        \/ \E q \in Questions : SubmitQuestion(s, q)
        \/ ClickClear(s)
        \/ ClickDownload(s)
        \/ StartRun(s)
        \/ TopLoadError(s)
        \/ TopNoDocs(s)
        \/ TopCached(s)
        \/ TopBuild(s)
        \/ TopBuildError(s)
        \/ AskSkip(s)
        \/ AskCall(s)
        \/ AskOk(s)
        \/ AskFail(s)
        \/ TailIdle(s)
        \/ TailClear(s)

Spec == Init /\ [][Next]_vars

----------------------------------------------------------------------------
(* Properties *)

Settled(s) == pc[s] = "idle" /\ req[s] = {}

\* C1: once the run started by Clear Conversation and the rerun it asks for
\* have finished, the session's transcript is empty and so is the memory of
\* the chain, whatever the question box and the filter box hold.
C1_ClearEmptiesTranscript ==
    \A s \in Sessions :
        (Settled(s) /\ trigger[s] = "rerun" /\ notice[s] = "") =>
            /\ chat_history[s] = <<>>
            /\ \A c \in chain_cache : c.memory = <<>>

\* C2: the transcript grows only for a submitted question that has not been
\* answered yet, by one exchange appended at the end, the earlier exchanges
\* unchanged; a rerun caused by another widget appends nothing.
C2_OneExchangePerSubmission ==
    [][\A s \in Sessions :
          Len(chat_history'[s]) > Len(chat_history[s]) =>
              /\ Len(chat_history'[s]) = Len(chat_history[s]) + 1
              /\ SubSeq(chat_history'[s], 1, Len(chat_history[s])) = chat_history[s]
              /\ chat_history'[s][Len(chat_history'[s])].question \in unanswered[s]]_vars

\* C3: the index of the chain that answers a question is built from exactly
\* the documents the session's filter selects.
C3_IndexMatchesFilter ==
    \A c \in inflight :
        Chain(c.key).segments = filtered_docs(load_cache.docs, w[c.session].search_query)

\* C4: a question submitted while the filter selects no document is answered
\* with an explicit "no documents available" notice.
C4_EmptyCorpusNotice ==
    \A s \in Sessions :
        ( /\ pc[s] = "idle"
          /\ load_cache.loaded
          /\ w[s].query # ""
          /\ filtered_docs(load_cache.docs, w[s].search_query) = <<>> ) =>
            notice[s] = "no_documents"

\* C5: a chain call that fails ends that ask alone: nothing is appended, the
\* transcripts and the chain's memory are as they were, no call stays in
\* flight and the session is idle, ready for the next event.
C5_FailedAskLeavesState ==
    [][\A s \in Sessions :
          (pc[s] = "calling" /\ pc'[s] # "calling" /\ notice'[s] = "ask_error") =>
              /\ chat_history' = chat_history
              /\ chain_cache' = chain_cache
              /\ session_keys' = session_keys
              /\ {c \in inflight' : c.session = s} = {}
              /\ pc'[s] = "idle"]_vars

\* C5 witness: the run after a failed ask has asked again and been answered
C5_LaterAskAnswered ==
    \E s \in Sessions :
        /\ prev_notice[s] = "ask_error"
        /\ notice[s] = ""
        /\ pc[s] = "idle"
        /\ Asks(s)
        /\ chat_history[s] # <<>>
        /\ chat_history[s][Len(chat_history[s])].question = w[s].query

\* C6: the conversation history handed to synthesis is exactly the session's
\* transcript, in order.
C6_MemoryIsTranscript ==
    \A c \in inflight : c.chat_history = Turns(chat_history[c.session])

Complete(e) ==
    /\ e.question \in Questions
    /\ e.answer.to = e.question
    /\ e.sources # <<>>

C7_Inv ==
    \A s \in Sessions :
        /\ Cardinality(CallsOf(s)) <= 1
        /\ CallsOf(s) # {} => pc[s] = "calling"
        /\ \A i \in 1..Len(chat_history[s]) : Complete(chat_history[s][i])

C7_Step ==
    \A s \in Sessions :
        (pc[s] = "calling" /\ pc'[s] # "calling" /\ notice'[s] # "ask_error") =>
            /\ \E c \in CallsOf(s) :
                 /\ Len(chat_history'[s]) = Len(chat_history[s]) + 1
                 /\ SubSeq(chat_history'[s], 1, Len(chat_history[s])) = chat_history[s]
                 /\ chat_history'[s][Len(chat_history'[s])].question = c.question
            /\ req'[s] = req[s]

\* the submitted questions of a session that wait to be asked: in the running
\* script before it reaches the ask, or in the pending request
Waiting(s) ==
    {q \in unanswered[s] :
        \/ pc[s] \in {"top", "ask"} /\ w[s].query = q
        \/ \E r \in req[s] : r.query = q}

Readable(files) ==
    LET Ok(file) == file.readable
    IN  SelectSeq(files, Ok)

\* C8: with one unreadable .pdf file in the folder, the load returns the page
\* documents of all the other files.
C8_BadFileSkipped ==
    \A s \in Sessions :
        (pc[s] = "idle" /\ Len(Readable(folder)) = Len(folder) - 1) =>
            load_cache = [loaded |-> TRUE,
                          docs |-> load_pdfs_from_folder(Readable(folder)).docs]

\* the conversation history synthesis would receive for the session's next ask
NextHistory(s) ==
    LET key == CacheKey(filtered_docs(load_cache.docs, Base(s).search_query))
    IN  IF Cached(key) THEN Chain(key).memory ELSE <<>>

\* C9: an ask or a Clear Conversation of one session changes neither the
\* transcript of another session nor the history its next ask receives.
C9_SessionsIsolated ==
    [][\A a, b \in Sessions :
          ( /\ a # b
            /\ \/ pc[a] = "calling" /\ pc'[a] = "tail"
               \/ pc[a] = "tail" /\ pc'[a] = "top" ) =>
              /\ chat_history'[b] = chat_history[b]
              /\ NextHistory(b)' = NextHistory(b)]_vars

\* C10: every segment of an index is at most maxLength long.
C10_SegmentsBounded ==
    \A c \in chain_cache :
        \A i \in 1..Len(c.segments) : Len(c.segments[i].page_content) <= maxLength

====
